---- MODULE Spec2Model ----
(***************************************************************************)
(* ComposTy: the SQL statement assembler buildComplexSQL and its helpers.  *)
(*                                                                         *)
(* A JavaScript string is a sequence of characters, each character a       *)
(* one-character TLA+ string.  A literal fragment of one of the source's   *)
(* template strings ("SELECT ", " AS ", ...) that holds no `$`, no `?` and *)
(* no character the code ever inspects is written as ONE element of the    *)
(* sequence; such an element belongs to no character class below, exactly  *)
(* like the blank or bracket it starts and ends with.                      *)
(*                                                                         *)
(* A JavaScript object whose key order matters (fields, dependsOn) is the  *)
(* sequence of its [key, value] entries in insertion order; ObjectEntries  *)
(* gives the order in which the engine enumerates them.                    *)
(***************************************************************************)
EXTENDS Integers, Sequences, FiniteSets, TLC

(***************************************************************************)
(* Bounds of the explored requests                                         *)
(***************************************************************************)
\* longest withSubqueries list
MaxSubqueries == 2
\* longest options.order_by list
MaxOrderTerms == 2
\* largest options.page
MaxPage == 2
\* largest options.page_size
MaxPageSize == 2

\* the most rows handed to paginateData
MaxRows == 2

(***************************************************************************)
(* Characters                                                              *)
(***************************************************************************)
LowerSeq ==
    <<"a","b","c","d","e","f","g","h","i","j","k","l","m",
      "n","o","p","q","r","s","t","u","v","w","x","y","z">>

UpperSeq ==
    <<"A","B","C","D","E","F","G","H","I","J","K","L","M",
      "N","O","P","Q","R","S","T","U","V","W","X","Y","Z">>

DigitSeq == <<"0","1","2","3","4","5","6","7","8","9">>

Range(s) == {s[i] : i \in DOMAIN s}

\* [a-zA-Z_]
IdentStart == Range(LowerSeq) \cup Range(UpperSeq) \cup {"_"}

\* [a-zA-Z0-9_]
IdentChars == IdentStart \cup Range(DigitSeq)

\* what String.prototype.trim removes
Whitespace == {" ", "\n", "\t"}

\* the value `undefined` where a string is expected
Undefined == <<"undefined">>

\* JavaScript truthiness of a string-or-undefined value
Truthy(s) == s # Undefined /\ s # <<>>

\* obj.key, for an optional property of a request object
Get(obj, key) == IF key \in DOMAIN obj THEN obj[key] ELSE Undefined

(***************************************************************************)
(* String primitives                                                       *)
(***************************************************************************)
RECURSIVE TrimStart(_)
TrimStart(s) ==
    IF s # <<>> /\ Head(s) \in Whitespace THEN TrimStart(Tail(s)) ELSE s

RECURSIVE TrimEnd(_)
TrimEnd(s) ==
    IF s # <<>> /\ s[Len(s)] \in Whitespace
    THEN TrimEnd(SubSeq(s, 1, Len(s) - 1))
    ELSE s

\* String.prototype.trim
trim(s) == TrimEnd(TrimStart(s))

\* Array.prototype.join
RECURSIVE Join(_, _)
Join(list, sep) ==
    IF list = <<>> THEN <<>>
    ELSE IF Len(list) = 1 THEN list[1]
    ELSE list[1] \o sep \o Join(Tail(list), sep)

\* Array.prototype.flat, one level
RECURSIVE Flatten(_)
Flatten(lists) ==
    IF lists = <<>> THEN <<>> ELSE Head(lists) \o Flatten(Tail(lists))

\* `${n}` for a non-negative integer n
RECURSIVE NumToText(_)
NumToText(n) ==
    IF n < 10 THEN <<DigitSeq[n + 1]>>
    ELSE NumToText(n \div 10) \o <<DigitSeq[(n % 10) + 1]>>

\* the upper-case form of a character (the `i` flag of a regular expression)
ToUpper(c) ==
    IF c \in Range(LowerSeq)
    THEN UpperSeq[CHOOSE i \in DOMAIN LowerSeq : LowerSeq[i] = c]
    ELSE c

\* the least element of a non-empty set of integers
Least(S) == CHOOSE k \in S : \A m \in S : k <= m

\* the last index of the run of [a-zA-Z0-9_] characters of s that starts at i
\* (the `*` of the regular expressions is greedy)
IdentEnd(s, i) ==
    Least({j \in i..Len(s) : j = Len(s) \/ s[j + 1] \notin IdentChars})

\* whether /<sigil>([a-zA-Z_][a-zA-Z0-9_]*)/ matches s at index i
TokenAt(s, i, sigil) ==
    /\ s[i] = sigil
    /\ i < Len(s)
    /\ s[i + 1] \in IdentStart

\* the index of the leftmost match of /<sigil>([a-zA-Z_][a-zA-Z0-9_]*)/ in s
\* at or after index i; 0 when there is none
NextToken(s, i, sigil) ==
    LET at == {k \in i..Len(s) : TokenAt(s, k, sigil)}
    IN  IF at = {} THEN 0 ELSE Least(at)

(***************************************************************************)
(* Objects with ordered keys                                               *)
(***************************************************************************)
\* a canonical array index: the keys an object enumerates first, ascending
IsArrayIndex(k) ==
    /\ k # <<>>
    /\ \A i \in DOMAIN k : k[i] \in Range(DigitSeq)
    /\ (Len(k) = 1 \/ k[1] # "0")

DigitValue(c) == (CHOOSE i \in DOMAIN DigitSeq : DigitSeq[i] = c) - 1

RECURSIVE TextToNum(_)
TextToNum(k) ==
    IF k = <<>> THEN 0
    ELSE 10 * TextToNum(SubSeq(k, 1, Len(k) - 1)) + DigitValue(k[Len(k)])

\* the positions of obj's entries in insertion order
InsertionOrder(obj) == [i \in 1..Len(obj) |-> i]

\* OrdinaryOwnPropertyKeys: array-index keys in ascending numeric order, then
\* the other string keys in insertion order
OwnPropertyKeysOrder(obj) ==
    LET idx == SelectSeq(InsertionOrder(obj), LAMBDA i : IsArrayIndex(obj[i].key))
        str == SelectSeq(InsertionOrder(obj), LAMBDA i : ~IsArrayIndex(obj[i].key))
    IN  SortSeq(idx, LAMBDA a, b : TextToNum(obj[a].key) < TextToNum(obj[b].key))
        \o str

\* Object.entries(obj): the entries in enumeration order
ObjectEntries(obj) ==
    LET order == OwnPropertyKeysOrder(obj)
    IN  [i \in 1..Len(obj) |-> obj[order[i]]]

\* obj[key] = value: an existing key keeps its place, a new key is added last
Put(obj, key, value) ==
    IF \E i \in DOMAIN obj : obj[i].key = key
    THEN [i \in DOMAIN obj |->
            IF obj[i].key = key THEN [key |-> key, value |-> value] ELSE obj[i]]
    ELSE Append(obj, [key |-> key, value |-> value])

\* { ...acc, ...src }
RECURSIVE PutAll(_, _)
PutAll(acc, entries) ==
    IF entries = <<>> THEN acc
    ELSE PutAll(Put(acc, Head(entries).key, Head(entries).value), Tail(entries))

Spread(acc, src) == PutAll(acc, ObjectEntries(src))

(***************************************************************************)
(* Errors: what a throw of `new SQLBuildError(message)` leaves behind      *)
(***************************************************************************)
NoError == <<>>

Ok(text) == [ok |-> TRUE, text |-> text, message |-> NoError]

Throw(message) == [ok |-> FALSE, text |-> <<>>, message |-> message]

(***************************************************************************)
(* validateInputs                                                          *)
(* Requests follow the declared TypeScript types: a property is a string   *)
(* (a number for page and page_size) or is absent, so that                 *)
(* `typeof x !== "string"` is true exactly of an absent x.                 *)
(***************************************************************************)
IsString(v) == v # Undefined

JoinTypes == { <<"JOIN">>, <<"LEFT JOIN">> }

\* validateSubqueries with the join type checked before the required fields
RECURSIVE validateSubqueriesJoinTypeFirst(_)
validateSubqueriesJoinTypeFirst(subqueries) ==
    IF subqueries = <<>> THEN Ok(<<>>)
    ELSE LET subquery == Head(subqueries) IN
         IF Truthy(Get(subquery, "joinType")) /\ subquery.joinType \notin JoinTypes
         THEN Throw(<<"Invalid join type: ">> \o subquery.joinType)
         ELSE IF \/ ~Truthy(Get(subquery, "name"))
                 \/ ~Truthy(Get(subquery, "alias"))
                 \/ ~Truthy(Get(subquery, "query"))
                 \/ ~Truthy(Get(subquery, "joinType"))
                 \/ ~Truthy(Get(subquery, "joinOn"))
         THEN Throw(<<"Invalid subquery configuration: missing required fields">>)
         ELSE validateSubqueriesJoinTypeFirst(Tail(subqueries))

RECURSIVE validateSubqueries(_)
validateSubqueries(subqueries) ==
    IF subqueries = <<>> THEN Ok(<<>>)
    ELSE LET subquery == Head(subqueries) IN
         IF \/ ~Truthy(Get(subquery, "name"))
            \/ ~Truthy(Get(subquery, "alias"))
            \/ ~Truthy(Get(subquery, "query"))
            \/ ~Truthy(Get(subquery, "joinType"))
            \/ ~Truthy(Get(subquery, "joinOn"))
         THEN Throw(<<"Invalid subquery configuration: missing required fields">>)
         ELSE IF subquery.joinType \notin JoinTypes
         THEN Throw(<<"Invalid join type: ">> \o subquery.joinType)
         ELSE validateSubqueries(Tail(subqueries))

validateInputs(query, options) ==
    LET sourceTable == Get(query, "sourceTable")
        sourceQuery == Get(query, "sourceQuery")
        alias == Get(query, "alias")
    IN
    IF ~Truthy(sourceQuery) /\ (~Truthy(sourceTable) \/ ~IsString(sourceTable))
    THEN Throw(<<"sourceTable is required and must be a string">>)
    ELSE IF ~Truthy(sourceTable) /\ (~Truthy(sourceQuery) \/ ~IsString(sourceQuery))
    THEN Throw(<<"sourceQuery is required and must be a string">>)
    ELSE IF ~Truthy(alias) \/ ~IsString(alias)
    THEN Throw(<<"alias is required and must be a string">>)
    ELSE IF "fields" \notin DOMAIN query \/ Len(query.fields) = 0
    THEN Throw(<<"fields must contain at least one field definition">>)
    ELSE IF "page" \in DOMAIN options /\ options.page < 0
    THEN Throw(<<"page must be a positive number">>)
    ELSE IF "page_size" \in DOMAIN options /\ options.page_size <= 0
    THEN Throw(<<"page_size must be a positive number">>)
    ELSE IF "withSubqueries" \in DOMAIN query
    THEN validateSubqueries(query.withSubqueries)
    ELSE Ok(<<>>)

\* validateInputs of the earlier builder (sql.ts): the same checks, the two
\* source checks folded into one
validateInputsSql(query, options) ==
    LET sourceTable == Get(query, "sourceTable")
        sourceQuery == Get(query, "sourceQuery")
        alias == Get(query, "alias")
    IN
    IF /\ (~Truthy(sourceQuery) \/ ~IsString(sourceQuery))
       /\ (~Truthy(sourceTable) \/ ~IsString(sourceTable))
    THEN IF ~Truthy(sourceTable)
         THEN Throw(<<"sourceQuery is required and must be a string">>)
         ELSE Throw(<<"sourceTable is required and must be a string">>)
    ELSE IF ~Truthy(alias) \/ ~IsString(alias)
    THEN Throw(<<"alias is required and must be a string">>)
    ELSE IF "fields" \notin DOMAIN query \/ Len(query.fields) = 0
    THEN Throw(<<"fields must contain at least one field definition">>)
    ELSE IF "page" \in DOMAIN options /\ options.page < 0
    THEN Throw(<<"page must be a positive number">>)
    ELSE IF "page_size" \in DOMAIN options /\ options.page_size <= 0
    THEN Throw(<<"page_size must be a positive number">>)
    ELSE IF "withSubqueries" \in DOMAIN query
    THEN validateSubqueries(query.withSubqueries)
    ELSE Ok(<<>>)

(***************************************************************************)
(* Clause builders                                                         *)
(***************************************************************************)
\* identifier.replace(/[^a-zA-Z0-9_]/g, "")
sanitizeIdentifier(identifier) ==
    SelectSeq(identifier, LAMBDA c : c \in IdentChars)

\* `${name} AS (${query.trim()})`
CteEntry(name, queryText) ==
    name \o <<" ", "AS", " ", "(">> \o trim(queryText) \o <<")">>

\* the entries of a view's or a subquery's dependsOn, in enumeration order
DependsOn(owner) ==
    IF "dependsOn" \in DOMAIN owner THEN ObjectEntries(owner.dependsOn) ELSE <<>>

\* subqueries.reduce((acc, subquery) => ({ ...acc, ...subquery.dependsOn }), {})
RECURSIVE depWithClauses(_, _)
depWithClauses(acc, subqueries) ==
    IF subqueries = <<>> THEN acc
    ELSE depWithClauses(
            IF "dependsOn" \in DOMAIN Head(subqueries)
            THEN Spread(acc, Head(subqueries).dependsOn)
            ELSE acc,
            Tail(subqueries))

\* expandQueryView with the view pushed before its dependencies
RECURSIVE expandQueryViewFirst(_)
expandQueryViewFirst(queryView) ==
    LET deps == DependsOn(queryView) IN
    << CteEntry(trim(queryView.name), queryView.query) >>
    \o Flatten([i \in DOMAIN deps |-> expandQueryViewFirst(deps[i].value)])

\* a view's dependencies, each expanded, then the view itself
RECURSIVE expandQueryView(_)
expandQueryView(queryView) ==
    LET deps == DependsOn(queryView) IN
    Flatten([i \in DOMAIN deps |-> expandQueryView(deps[i].value)])
    \o << CteEntry(trim(queryView.name), queryView.query) >>

\* Object.keys(depWithClauses).flatMap(key => expandQueryView(depWithClauses[key]))
withClauses(subqueries) ==
    LET deps == ObjectEntries(depWithClauses(<<>>, subqueries)) IN
    Flatten([i \in DOMAIN deps |-> expandQueryView(deps[i].value)])

secondWithClauses(subqueries) ==
    [i \in DOMAIN subqueries |->
        CteEntry(sanitizeIdentifier(subqueries[i].name), subqueries[i].query)]

\* [...withClauses, ...secondWithClauses]
allWithClauses(subqueries) ==
    withClauses(subqueries) \o secondWithClauses(subqueries)

buildWithClause(subqueries) ==
    IF Len(subqueries) = 0 THEN <<>>
    ELSE <<"WITH", " ">> \o Join(allWithClauses(subqueries), <<",", " ">>)

\* Object.entries(fields).map(([field, expr]) => `${expr.trim()} AS ${sanitizeIdentifier(field)}`)
FieldColumns(fields) ==
    LET entries == ObjectEntries(fields) IN
    [i \in DOMAIN entries |->
        trim(entries[i].value) \o <<" ", "AS", " ">>
            \o sanitizeIdentifier(entries[i].key)]

OrderByMacro == <<"$", "o","r","d","e","r","_","b","y">>

RevOrderByMacro == <<"$", "r","e","v","_","o","r","d","e","r","_","b","y">>

\* the two window-count columns pushed when pagination is supported
PaginationColumns(query) ==
    << <<"COUNT", "(">> \o query.alias \o <<".", "i", "d", ")", " ", "OVER", " ",
          "(", "ORDER BY", " ">> \o RevOrderByMacro
          \o <<")", " ", "-", " ", "1", " ", "AS", " ", "_sql_util_remaining">>,
       <<"COUNT", "(">> \o query.alias \o <<".", "i", "d", ")", " ", "OVER", " ",
          "(", "ORDER BY", " ">> \o OrderByMacro
          \o <<")", " ", "AS", " ", "_sql_util_num">> >>

\* the pagination condition with a single ordering term sufficing
SupportsPaginationOneTerm(options) ==
    /\ "order_by" \in DOMAIN options
    /\ Len(options.order_by) > 0
    /\ "page_size" \in DOMAIN options
    /\ "page" \in DOMAIN options

SupportsPagination(options) ==
    /\ "order_by" \in DOMAIN options
    /\ Len(options.order_by) > 1
    /\ "page_size" \in DOMAIN options
    /\ "page" \in DOMAIN options

\* query.withSubqueries || []
SubqueriesOf(query) ==
    IF "withSubqueries" \in DOMAIN query THEN query.withSubqueries ELSE <<>>

selectColumns(query, options) ==
    LET mainFields == FieldColumns(query.fields)
        subs == SubqueriesOf(query)
        subqueryFields == Flatten([i \in DOMAIN subs |-> FieldColumns(subs[i].fields)])
        allFields == mainFields \o subqueryFields
    IN  IF SupportsPagination(options)
        THEN allFields \o PaginationColumns(query)
        ELSE allFields

buildSelectClause(query, options) ==
    <<"SELECT", " ">> \o Join(selectColumns(query, options), <<",", " ">>)

\* the join lines with the alias written as the caller gave it
buildJoinClausesRawAlias(subqueries) ==
    IF Len(subqueries) = 0 THEN <<>>
    ELSE Join([i \in DOMAIN subqueries |->
                subqueries[i].joinType \o <<" ">>
                    \o sanitizeIdentifier(subqueries[i].name)
                    \o <<" ", "AS", " ">>
                    \o subqueries[i].alias
                    \o <<" ", "ON", " ">> \o subqueries[i].joinOn],
              <<"\n">>)

buildJoinClauses(subqueries) ==
    IF Len(subqueries) = 0 THEN <<>>
    ELSE Join([i \in DOMAIN subqueries |->
                subqueries[i].joinType \o <<" ">>
                    \o sanitizeIdentifier(subqueries[i].name)
                    \o <<" ", "AS", " ">>
                    \o sanitizeIdentifier(subqueries[i].alias)
                    \o <<" ", "ON", " ">> \o subqueries[i].joinOn],
              <<"\n">>)

buildFromClause(query) ==
    IF Truthy(Get(query, "sourceTable"))
    THEN Ok(<<"FROM", " ">> \o sanitizeIdentifier(query.sourceTable)
            \o <<" ", "AS", " ">> \o sanitizeIdentifier(query.alias))
    ELSE IF Truthy(Get(query, "sourceQuery"))
    THEN Ok(<<"FROM", " ", "(">> \o query.sourceQuery \o <<")", " ", "AS", " ">>
            \o sanitizeIdentifier(query.alias))
    ELSE Throw(<<"Either sourceTable or sourceQuery must be provided">>)

buildWhereClause(query, options) ==
    IF Truthy(Get(query, "where")) \/ Truthy(Get(options, "where"))
    THEN LET conditions ==
                (IF Truthy(Get(query, "where"))
                 THEN << <<"(">> \o query.where \o <<")">> >> ELSE <<>>)
                \o
                (IF Truthy(Get(options, "where")) /\ Truthy(trim(options.where))
                 THEN << <<"(">> \o options.where \o <<")">> >> ELSE <<>>)
         IN  <<"WHERE", " ">> \o Join(conditions, <<" ", "AND", " ">>)
    ELSE <<>>

\* options?.order_by?.join(", ")
orderByConditionOf(options) ==
    IF "order_by" \in DOMAIN options
    THEN Join(options.order_by, <<",", " ">>)
    ELSE Undefined

buildOrderByClause(options) ==
    IF "order_by" \in DOMAIN options /\ Len(options.order_by) # 0
    THEN <<"ORDER BY", " ">> \o orderByConditionOf(options)
    ELSE <<>>

buildLimitClause(options) ==
    IF "page_size" \in DOMAIN options /\ options.page_size # 0
    THEN <<"LIMIT", " ">> \o NumToText(options.page_size)
    ELSE <<>>

\* the offset computed as if pages were counted from one
buildOffsetClauseFromOne(options) ==
    IF "page" \in DOMAIN options /\ "page_size" \in DOMAIN options
    THEN <<"OFFSET", " ">> \o NumToText((options.page + 1) * options.page_size)
    ELSE <<>>

buildOffsetClause(options) ==
    IF "page" \in DOMAIN options /\ "page_size" \in DOMAIN options
    THEN <<"OFFSET", " ">> \o NumToText(options.page * options.page_size)
    ELSE <<>>

\* clauses.filter(Boolean).join(" ")
joinClausesText(clauses) ==
    Join(SelectSeq(clauses, LAMBDA c : c # <<>>), <<" ">>)

(***************************************************************************)
(* Parameter rewriter                                                      *)
(***************************************************************************)
ASC == <<"A", "S", "C">>

DESC == <<"D", "E", "S", "C">>

\* whether `word`, an alternative of /(ASC|DESC)/gi, matches s at index i
WordAt(s, i, word) ==
    /\ i + Len(word) - 1 <= Len(s)
    /\ \A k \in DOMAIN word : ToUpper(s[i + k - 1]) = word[k]

\* the callback of orderByCondition.replace(/(ASC|DESC)/gi, ...)
flipDirection(val) ==
    IF val = ASC THEN DESC
    ELSE IF val = DESC THEN ASC
    ELSE val

\* the index of the leftmost match of /(ASC|DESC)/gi in s at or after index i;
\* 0 when there is none
NextDirection(s, i) ==
    LET at == {k \in i..Len(s) : WordAt(s, k, ASC) \/ WordAt(s, k, DESC)}
    IN  IF at = {} THEN 0 ELSE Least(at)

\* orderByCondition.replace(/(ASC|DESC)/gi, callback), scanning from index i;
\* at one index the alternative ASC is tried before DESC
RECURSIVE replaceDirections(_, _, _)
replaceDirections(s, i, acc) ==
    LET k == NextDirection(s, i)
        n == IF WordAt(s, k, ASC) THEN 3 ELSE 4
    IN  IF k = 0 THEN acc \o SubSeq(s, i, Len(s))
        ELSE replaceDirections(s, k + n,
                acc \o SubSeq(s, i, k - 1) \o flipDirection(SubSeq(s, k, k + n - 1)))

revOrderBy(orderByCondition) == replaceDirections(orderByCondition, 1, <<>>)

\* the callback of the macro pass: the switch on paramName
macroCallback(paramName, orderByCondition) ==
    IF paramName = Tail(OrderByMacro)
    THEN IF ~Truthy(orderByCondition)
         THEN Throw(<<"Missing order_by">>)
         ELSE Ok(orderByCondition)
    ELSE IF paramName = Tail(RevOrderByMacro)
    THEN IF ~Truthy(orderByCondition)
         THEN Throw(<<"Missing order_by">>)
         ELSE Ok(revOrderBy(orderByCondition))
    ELSE Ok(<<>>)

\* finalQuery.replace(/\$([a-zA-Z_][a-zA-Z0-9_]*)/g, callback), scanning from index i
RECURSIVE replaceMacros(_, _, _, _)
replaceMacros(s, i, acc, orderByCondition) ==
    LET k == NextToken(s, i, "$")
        j == IdentEnd(s, k + 1)
        r == macroCallback(SubSeq(s, k + 1, j), orderByCondition)
    IN  IF k = 0 THEN Ok(acc \o SubSeq(s, i, Len(s)))
        ELSE IF r.ok
        THEN replaceMacros(s, j + 1, acc \o SubSeq(s, i, k - 1) \o r.text,
                           orderByCondition)
        ELSE r

macroPass(text, orderByCondition) == replaceMacros(text, 1, <<>>, orderByCondition)

\* finalQuery.replace(/\?([a-zA-Z_][a-zA-Z0-9_]*)/g, callback), scanning from
\* index i: the rewritten text and the values pushed to paramsOut
RECURSIVE replacePlaceholders(_, _, _, _, _)
replacePlaceholders(s, i, acc, out, params) ==
    LET k == NextToken(s, i, "?")
        j == IdentEnd(s, k + 1)
        paramName == SubSeq(s, k + 1, j)
    IN  IF k = 0
        THEN [ok |-> TRUE, text |-> acc \o SubSeq(s, i, Len(s)),
              message |-> NoError, params |-> out]
        ELSE IF paramName \notin DOMAIN params
        THEN [ok |-> FALSE, text |-> <<>>,
              message |-> <<"Missing parameter: ">> \o paramName,
              params |-> out]
        ELSE replacePlaceholders(s, j + 1, acc \o SubSeq(s, i, k - 1) \o <<"?">>,
                                 Append(out, params[paramName]), params)

placeholderPass(text, params) == replacePlaceholders(text, 1, <<>>, <<>>, params)

(***************************************************************************)
(* Requests: the (query, options) pairs buildComplexSQL is called with     *)
(***************************************************************************)
\* an entry of an object literal
E(key, value) == [key |-> key, value |-> value]

\* an optional property: absent, or one of `values`
Opt(key, values) == {<<>>} \cup {key :> v : v \in values}

\* every list of at most n elements of S
ListsUpTo(S, n) == UNION {[1..k -> S] : k \in 0..n}

Users == <<"u", "s", "e", "r", "s">>

AliasU == <<"u">>

IdField == << E(<<"i", "d">>, <<"u", ".", "i", "d">>) >>

\* a well-formed subquery, as in the test 'complex query'
UserTags ==
    [name |-> <<"u", "_", "t">>, alias |-> <<"u", "t">>,
     query |-> <<"\n", " ", "S", " ", "t", "\n">>,
     joinType |-> <<"LEFT JOIN">>,
     joinOn |-> <<"u", ".", "i", "d", "=", "u", "t", ".", "i", "d">>,
     fields |-> << E(<<"t", "n">>, <<"u", "t", ".", "t", "n">>) >>]

BaseQuery ==
    [sourceTable |-> Users, alias |-> AliasU, fields |-> IdField]

(* Requests that violate preconditions of validateInputs, alone and together *)
BadJoinType == [UserTags EXCEPT !.joinType = <<"INNER JOIN">>]

\* no joinOn, and a join type that is not allowed either
Incomplete == [k \in DOMAIN UserTags \ {"joinOn"} |-> BadJoinType[k]]

InvalidSubqueries == {Incomplete, BadJoinType}

ValidationQueries ==
    { st @@ sq @@ al @@ fl @@ ws :
        st \in Opt("sourceTable", {<<>>, Users}),
        sq \in Opt("sourceQuery", {<<>>, <<"S", " ", "1">>}),
        al \in Opt("alias", {<<>>, AliasU}),
        fl \in Opt("fields", {<<>>, IdField}),
        ws \in Opt("withSubqueries",
                   ListsUpTo({UserTags} \cup InvalidSubqueries, MaxSubqueries)) }

ValidationOptions ==
    { pg @@ ps :
        pg \in Opt("page", {-1, 0, MaxPage}),
        ps \in Opt("page_size", {0, MaxPageSize}) }

ValidationRequests == ValidationQueries \X ValidationOptions

(* Requests whose text carries placeholders and macros *)
OrderTerms ==
    { <<"c", " ">> \o DESC,
      DESC \o <<"R", " ">> \o ASC,
      <<"a", "s", "c", " ">> \o ASC }

RewriteFields ==
    { IdField,
      << E(<<"i", "d">>, <<"?", "x">>),
         E(<<"r">>, <<"R", "(">> \o OrderByMacro \o <<")">>) >> }

RewriteQueries ==
    { [BaseQuery EXCEPT !.fields = fl] @@ wh :
        fl \in RewriteFields,
        wh \in Opt("where", {<<"a", "=", "?", "x">>}) }

RewriteOptions ==
    { wh @@ pa @@ ob @@ pg @@ ps :
        wh \in Opt("where", { <<"?", "y", "$", "f", "<", "?", "x", "+", "?", "y">>,
                              <<"c", "<">> \o RevOrderByMacro }),
        pa \in Opt("params", { <<>>,
                               <<"x">> :> 1,
                               (<<"x">> :> 1) @@ (<<"y">> :> 2) }),
        ob \in Opt("order_by", ListsUpTo(OrderTerms, MaxOrderTerms)),
        pg \in Opt("page", {MaxPage}),
        ps \in Opt("page_size", {MaxPageSize}) }

RewriteRequests == RewriteQueries \X RewriteOptions

(* Requests with view dependencies *)
ViewB == [name |-> <<"B">>, query |-> <<"S", " ", "b">>]

ViewB2 == [name |-> <<"B">>, query |-> <<"S", " ", "2">>]

ViewA ==
    [name |-> <<"A">>, query |-> <<"S", " ", "B">>,
     dependsOn |-> << E(<<"b">>, ViewB) >>]

ViewC ==
    [name |-> <<"C", " ">>, query |-> <<" ", "S", " ", "B">>,
     dependsOn |-> << E(<<"b">>, ViewB) >>]

ViewD ==
    [name |-> <<"D">>, query |-> <<"S", " ", "A", ",", "C">>,
     dependsOn |-> << E(<<"c">>, ViewC), E(<<"a">>, ViewA) >>]

DependentSubquery(name, dependsOn) ==
    [UserTags EXCEPT !.name = name] @@ ("dependsOn" :> dependsOn)

ViewSubqueries ==
    { UserTags,
      DependentSubquery(<<"s", "1">>, << E(<<"a">>, ViewA) >>),
      DependentSubquery(<<"s", "2">>, << E(<<"b">>, ViewB) >>),
      DependentSubquery(<<"s", "3">>, << E(<<"x">>, ViewB) >>),
      DependentSubquery(<<"s", "4">>, << E(<<"b">>, ViewB2) >>),
      DependentSubquery(<<"s", "5">>, << E(<<"d">>, ViewD) >>),
      DependentSubquery(<<"s", "6">>, << E(<<"2">>, ViewC), E(<<"1">>, ViewA) >>) }

ViewRequests ==
    { <<BaseQuery @@ ("withSubqueries" :> ws), <<>> >> :
        ws \in ListsUpTo(ViewSubqueries, MaxSubqueries) }

(* Requests that vary the field mappings *)
SelectFields ==
    { << E(<<"i", "d">>, <<"u", ".", "i", "d">>), E(<<"n">>, <<" ", "u", ".", "n", " ">>) >>,
      << E(<<"n">>, <<"u", ".", "n">>), E(<<"i", "d">>, <<"u", ".", "i", "d">>) >>,
      << E(<<"n", " ", "m">>, <<"u", ".", "n">>), E(<<"1">>, <<"u", ".", "i", "d">>) >>,
      << E(<<"2">>, <<"u", ".", "b">>), E(<<"1", "0">>, <<"u", ".", "c">>),
         E(<<"1">>, <<"u", ".", "a">>) >>,
      << E(<<"0", "1">>, <<"u", ".", "b">>), E(<<"x">>, <<"u", ".", "a">>) >> }

SelectSubqueries ==
    { UserTags,
      [UserTags EXCEPT !.name = <<"v">>, !.fields = <<>>],
      [UserTags EXCEPT !.name = <<"w">>,
         !.fields = << E(<<"k">>, <<"w", ".", "k">>), E(<<"j">>, <<"w", ".", "j">>) >>] }

SelectRequests ==
    { << [BaseQuery EXCEPT !.fields = fl] @@ ws, <<>> >> :
        fl \in SelectFields,
        ws \in Opt("withSubqueries", ListsUpTo(SelectSubqueries, MaxSubqueries)) }

(* Requests that vary the ordering terms and the page window *)
PaginationOptions ==
    { ob @@ pg @@ ps @@ pa :
        ob \in Opt("order_by", ListsUpTo({<<"c", " ">> \o ASC}, MaxOrderTerms)),
        pg \in Opt("page", {0, 2, MaxPage}),
        ps \in Opt("page_size", {10, MaxPageSize}),
        pa \in Opt("params", {<<>>}) }

PaginationRequests == {BaseQuery} \X PaginationOptions

(* Requests that vary the two filters *)
WhereQueries ==
    { BaseQuery @@ wh : wh \in Opt("where", {<<>>, <<"a", "=", "1">>}) }

WhereOptions ==
    { wh @@ ps :
        wh \in Opt("where", {<<>>, <<" ">>, <<" ", "b", "=", "2">>}),
        ps \in Opt("page_size", {MaxPageSize}) }

WhereRequests == WhereQueries \X WhereOptions

(* Requests whose identifiers hold characters the sanitizer removes *)
DropTable ==
    <<"u", ";", " ", "D", "R", "O", "P", " ", "T", "A", "B", "L", "E", " ", "x">>

JoinAB ==
    [name |-> <<"a", "-", "b">>, alias |-> <<"x", " ", "y">>,
     query |-> <<"S", " ", "a">>, joinType |-> <<"JOIN">>,
     joinOn |-> <<"u", ".", "i", "=", "x", ".", "i">>,
     fields |-> << E(<<"a">>, <<"x", ".", "a">>) >>]

JoinAb ==
    [name |-> <<"a", "b">>, alias |-> <<"z">>,
     query |-> <<"S", " ", "b">>, joinType |-> <<"LEFT JOIN">>,
     joinOn |-> <<"u", ".", "i", "=", "z", ".", "i", " ", "-", "-">>,
     fields |-> << E(<<"b", "!">>, <<"z", ".", "b">>) >>]

JoinDash ==
    [name |-> <<"-">>, alias |-> <<".">>,
     query |-> <<"S", " ", "c">>, joinType |-> <<"JOIN">>,
     joinOn |-> <<"1", "=", "1">>,
     fields |-> << E(<<"*">>, <<"1">>) >>]

JoinSubqueries == {JoinAB, JoinAb, JoinDash}

JoinSources ==
    { "sourceTable" :> <<"m", "y", "-", "u", "s", "e", "r", "s">>,
      "sourceTable" :> <<"\"">>,
      "sourceQuery" :> <<" ", "S", " ", "1", ";", " ">> }

JoinQueries ==
    { src @@ [alias |-> al, fields |-> IdField] @@ ws :
        src \in JoinSources,
        al \in {AliasU, DropTable, <<";">>},
        ws \in Opt("withSubqueries", ListsUpTo(JoinSubqueries, MaxSubqueries)) }

JoinRequests == JoinQueries \X {<<>>}

(* Requests whose subqueries declare bind parameters of their own *)
Scoped ==
    [UserTags EXCEPT !.name = <<"s", "c">>,
                     !.query = <<"S", " ", "t", " ", "W", " ", "?", "k">>]
        @@ ("params" :> (<<"k">> :> 7))

ScopedQueries ==
    { BaseQuery @@ ("withSubqueries" :> ws) :
        ws \in ListsUpTo({Scoped, UserTags}, MaxSubqueries) \ {<<>>} }

ScopedOptions ==
    { pa @@ wh :
        pa \in Opt("params", {<<>>, <<"k">> :> 9, <<"j">> :> 5}),
        wh \in Opt("where", {<<"j", "=", "?", "j">>}) }

ScopedRequests == ScopedQueries \X ScopedOptions

Requests ==
    ValidationRequests \cup RewriteRequests \cup ViewRequests \cup SelectRequests
        \cup PaginationRequests \cup WhereRequests \cup JoinRequests
        \cup ScopedRequests

(***************************************************************************)
(* buildComplexSQL, one call, step by step                                 *)
(***************************************************************************)
VARIABLES
    query, options,        \* the arguments of the call
    pc,                    \* where the call stands
    withClause, selectClause, fromClause, joinClauses, whereClause,
    orderByCondition, orderByClause, limitClause, offsetClause,
    finalQuery, paramsOut, \* the locals of buildComplexSQL
    thrown,                \* the message of the SQLBuildError thrown, if any
    data, pageArgs,        \* the arguments of a paginateData call
    paginated              \* what paginateData returned or threw

vars ==
    <<query, options, pc, withClause, selectClause, fromClause, joinClauses,
      whereClause, orderByCondition, orderByClause, limitClause, offsetClause,
      finalQuery, paramsOut, thrown, data, pageArgs, paginated>>

paginateVars == <<data, pageArgs, paginated>>

clauses ==
    <<withClause, selectClause, fromClause, joinClauses, whereClause,
      orderByCondition, orderByClause, limitClause, offsetClause>>

Init ==
    /\ \E request \in Requests :
          /\ query = request[1]
          /\ options = request[2]
    /\ pc = "call"
    /\ withClause = <<>>
    /\ selectClause = <<>>
    /\ fromClause = <<>>
    /\ joinClauses = <<>>
    /\ whereClause = <<>>
    /\ orderByCondition = Undefined
    /\ orderByClause = <<>>
    /\ limitClause = <<>>
    /\ offsetClause = <<>>
    /\ finalQuery = <<>>
    /\ paramsOut = <<>>
    /\ thrown = NoError
    /\ data = <<>>
    /\ pageArgs = <<>>
    /\ paginated = Undefined

\* validateInputs(query, options)
Validate ==
    /\ pc = "call"
    /\ LET r == validateInputs(query, options) IN
        /\ pc' = IF r.ok THEN "validated" ELSE "thrown"
        /\ thrown' = r.message
    /\ UNCHANGED <<query, options, clauses, finalQuery, paramsOut, paginateVars>>

\* the clause builders and the concatenation of the non-empty clauses
BuildClauses ==
    /\ pc = "validated"
    /\ LET from == buildFromClause(query) IN
        /\ withClause' =
              IF "withSubqueries" \in DOMAIN query
              THEN buildWithClause(query.withSubqueries) ELSE <<>>
        /\ selectClause' = buildSelectClause(query, options)
        /\ fromClause' = from.text
        /\ joinClauses' =
              IF from.ok /\ "withSubqueries" \in DOMAIN query
              THEN buildJoinClauses(query.withSubqueries) ELSE <<>>
        /\ whereClause' = IF from.ok THEN buildWhereClause(query, options) ELSE <<>>
        /\ orderByCondition' = IF from.ok THEN orderByConditionOf(options) ELSE Undefined
        /\ orderByClause' = IF from.ok THEN buildOrderByClause(options) ELSE <<>>
        /\ limitClause' = IF from.ok THEN buildLimitClause(options) ELSE <<>>
        /\ offsetClause' = IF from.ok THEN buildOffsetClause(options) ELSE <<>>
        /\ finalQuery' =
              IF from.ok
              THEN joinClausesText(<<withClause', selectClause', fromClause',
                                     joinClauses', whereClause', orderByClause',
                                     limitClause', offsetClause'>>)
              ELSE <<>>
        /\ pc' = IF from.ok THEN "assembled" ELSE "thrown"
        /\ thrown' = from.message
    /\ UNCHANGED <<query, options, paramsOut, paginateVars>>

\* if (options?.params): the replace of the ordering macros
MacroPass ==
    /\ pc = "assembled"
    /\ "params" \in DOMAIN options
    /\ LET r == macroPass(finalQuery, orderByCondition) IN
        /\ finalQuery' = IF r.ok THEN r.text ELSE finalQuery
        /\ pc' = IF r.ok THEN "macros_replaced" ELSE "thrown"
        /\ thrown' = r.message
    /\ UNCHANGED <<query, options, clauses, paramsOut, paginateVars>>

\* the replace of the `?identifier` placeholders
PlaceholderPass ==
    /\ pc = "macros_replaced"
    /\ LET r == placeholderPass(finalQuery, options.params) IN
        /\ finalQuery' = IF r.ok THEN r.text ELSE finalQuery
        /\ paramsOut' = r.params
        /\ pc' = IF r.ok THEN "substituted" ELSE "thrown"
        /\ thrown' = r.message
    /\ UNCHANGED <<query, options, clauses, paginateVars>>

\* return { query: finalQuery, params: paramsOut }
Return ==
    /\ pc = IF "params" \in DOMAIN options THEN "substituted" ELSE "assembled"
    /\ pc' = "returned"
    /\ UNCHANGED <<query, options, clauses, finalQuery, paramsOut, thrown, paginateVars>>

Next ==
    \/ Validate
    \/ BuildClauses
    \/ MacroPass
    \/ PlaceholderPass
    \/ Return

Spec == Init /\ [][Next]_vars

(***************************************************************************)
(* paginateData, one call                                                  *)
(***************************************************************************)
\* typeof row[key] === "number": a row's count is a number or absent
IsNumber(row, key) == key \in DOMAIN row

\* row[key] > 0 as JavaScript compares: undefined > 0 is false
IsPositive(row, key) == IsNumber(row, key) /\ row[key] > 0

\* page = 0, limit = 10: the defaults of the destructured second argument
PageOf(args) == IF "page" \in DOMAIN args THEN args.page ELSE 0

LimitOf(args) == IF "limit" \in DOMAIN args THEN args.limit ELSE 10

paginateData(d, args) ==
    IF Len(d) = 0
    THEN [ok |-> TRUE,
          data |-> <<>>,
          pagination |-> [page |-> PageOf(args), limit |-> LimitOf(args),
                          total |-> 0, has_more |-> FALSE]]
    ELSE IF \/ ~IsNumber(d[1], "_sql_util_remaining")
            \/ ~IsNumber(d[1], "_sql_util_num")
    THEN [ok |-> FALSE,
          message |-> <<"order_by, page, and page_size are required for pagination">>]
    ELSE [ok |-> TRUE,
          data |-> d,
          pagination |->
              [page |-> PageOf(args), limit |-> LimitOf(args),
               total |-> d[1]._sql_util_remaining + d[1]._sql_util_num,
               has_more |-> IsPositive(d[Len(d)], "_sql_util_remaining")]]

\* the rows a query with (or without) the window-count columns gives back
Rows ==
    { [id |-> 1] @@ rem @@ num :
        rem \in Opt("_sql_util_remaining", 0..1),
        num \in Opt("_sql_util_num", 1..2) }

PaginateArgs ==
    { pg @@ lm : pg \in Opt("page", {MaxPage}), lm \in Opt("limit", {MaxPageSize}) }

PaginateInit ==
    /\ data \in ListsUpTo(Rows, MaxRows)
    /\ pageArgs \in PaginateArgs
    /\ paginated = Undefined
    /\ pc = "paginate"
    /\ query = <<>>
    /\ options = <<>>
    /\ withClause = <<>>
    /\ selectClause = <<>>
    /\ fromClause = <<>>
    /\ joinClauses = <<>>
    /\ whereClause = <<>>
    /\ orderByCondition = Undefined
    /\ orderByClause = <<>>
    /\ limitClause = <<>>
    /\ offsetClause = <<>>
    /\ finalQuery = <<>>
    /\ paramsOut = <<>>
    /\ thrown = NoError

PaginateData ==
    /\ pc = "paginate"
    /\ paginated' = paginateData(data, pageArgs)
    /\ pc' = IF paginated'.ok THEN "paginated" ELSE "paginate_thrown"
    /\ UNCHANGED <<query, options, clauses, finalQuery, paramsOut, thrown,
                   data, pageArgs>>

PaginateNext == PaginateData

PaginateSpec == PaginateInit /\ [][PaginateNext]_vars

(***************************************************************************)
(* What the properties below read off a state                              *)
(***************************************************************************)
HasParams == "params" \in DOMAIN options

\* the clauses joined, as BuildClauses left them in finalQuery
AssembledText ==
    joinClausesText(<<withClause, selectClause, fromClause, joinClauses,
                      whereClause, orderByClause, limitClause, offsetClause>>)

\* the text the placeholder pass scans, or would scan
ScannedText ==
    IF HasParams
    THEN macroPass(AssembledText, orderByCondition).text
    ELSE AssembledText

\* the names of the <sigil>identifier tokens of s from index i on, left to right
RECURSIVE TokensFrom(_, _, _)
TokensFrom(s, i, sigil) ==
    LET k == NextToken(s, i, sigil)
        j == IdentEnd(s, k + 1)
    IN  IF k = 0 THEN <<>>
        ELSE <<SubSeq(s, k + 1, j)>> \o TokensFrom(s, j + 1, sigil)

TokenNames(s, sigil) == TokensFrom(s, 1, sigil)

Count(s, c) == Cardinality({i \in DOMAIN s : s[i] = c})

\* whether pat occurs in text
Contains(text, pat) ==
    \E k \in 1..(Len(text) - Len(pat) + 1) :
        SubSeq(text, k, k + Len(pat) - 1) = pat

IsPrefix(pre, text) ==
    Len(pre) <= Len(text) /\ SubSeq(text, 1, Len(pre)) = pre

Built == pc \in {"assembled", "macros_replaced", "substituted", "returned"}

(***************************************************************************)
(* C1                                                                      *)
(***************************************************************************)
\* C1: in every successful call the returned params hold exactly one entry
\* per `?identifier` token of the text, in occurrence order, the i-th entry
\* being the parameter map's value for the i-th token's name, and every token
\* has become a single `?`.
C1_ParamsFollowPlaceholders ==
    pc = "returned" =>
        LET names == TokenNames(ScannedText, "?") IN
        /\ Len(paramsOut) = Len(names)
        /\ \A i \in DOMAIN names :
              /\ HasParams
              /\ names[i] \in DOMAIN options.params
              /\ paramsOut[i] = options.params[names[i]]
        /\ NextToken(finalQuery, 1, "?") = 0
        /\ Count(finalQuery, "?") = Count(ScannedText, "?")

(***************************************************************************)
(* C2                                                                      *)
(***************************************************************************)
\* C2: whatever the options (a parameter map or none), a `?identifier` token
\* with no entry in the map makes the call fail with "Missing parameter:
\* <identifier>"; no successful result still holds an unbound token.
C2_UnboundPlaceholderFails ==
    /\ pc = "returned" =>
          /\ \A name \in Range(TokenNames(ScannedText, "?")) :
                HasParams /\ name \in DOMAIN options.params
          /\ NextToken(finalQuery, 1, "?") = 0
    /\ (pc = "thrown" /\ thrown # NoError /\ Head(thrown) = "Missing parameter: ") =>
          /\ Tail(thrown) \in Range(TokenNames(ScannedText, "?"))
          /\ Tail(thrown) \notin DOMAIN options.params
          /\ finalQuery # <<>> => NextToken(finalQuery, 1, "?") # 0

(***************************************************************************)
(* C3                                                                      *)
(***************************************************************************)
SubqueryIncomplete(subquery) ==
    \E k \in {"name", "alias", "query", "joinType", "joinOn"} :
        k \notin DOMAIN subquery \/ subquery[k] = <<>>

SubqueryViolates(subquery) ==
    SubqueryIncomplete(subquery) \/ subquery.joinType \notin JoinTypes

\* the earliest violated precondition of a request, in the order (a)..(f)
EarliestViolation(q, o) ==
    LET subs == SubqueriesOf(q)
        bad == {i \in DOMAIN subs : SubqueryViolates(subs[i])}
    IN
    IF \A k \in {"sourceTable", "sourceQuery"} : k \notin DOMAIN q \/ q[k] = <<>>
    THEN "source"
    ELSE IF "alias" \notin DOMAIN q \/ q.alias = <<>> THEN "alias"
    ELSE IF "fields" \notin DOMAIN q \/ q.fields = <<>> THEN "fields"
    ELSE IF "page" \in DOMAIN o /\ ~(o.page >= 0) THEN "page"
    ELSE IF "page_size" \in DOMAIN o /\ ~(o.page_size > 0) THEN "page_size"
    ELSE IF bad = {} THEN "none"
    ELSE IF SubqueryIncomplete(subs[Least(bad)]) THEN "subquery fields"
    ELSE "subquery join type"

\* the precondition an error message reports
ReportedViolation(message) ==
    IF message = NoError THEN "none"
    ELSE IF Head(message) \in {"sourceTable is required and must be a string",
                               "sourceQuery is required and must be a string"}
    THEN "source"
    ELSE IF Head(message) = "alias is required and must be a string" THEN "alias"
    ELSE IF Head(message) = "fields must contain at least one field definition"
    THEN "fields"
    ELSE IF Head(message) = "page must be a positive number" THEN "page"
    ELSE IF Head(message) = "page_size must be a positive number" THEN "page_size"
    ELSE IF Head(message) = "Invalid subquery configuration: missing required fields"
    THEN "subquery fields"
    ELSE IF Head(message) = "Invalid join type: " THEN "subquery join type"
    ELSE "later"

NothingBuilt ==
    /\ finalQuery = <<>>
    /\ paramsOut = <<>>
    /\ \A i \in {1, 2, 3, 4, 5, 7, 8, 9} : clauses[i] = <<>>

\* C3: validation is fail-fast in the fixed order source, alias, fields, page,
\* page_size, then each subquery in list order (required fields, then join
\* type): the error reported is that of the earliest violated check, and no
\* SQL text is produced.  Both builders' validators are held to it.
C3_EarliestViolationReported ==
    /\ pc # "call" =>
          IF EarliestViolation(query, options) # "none"
          THEN /\ pc = "thrown"
               /\ ReportedViolation(thrown) = EarliestViolation(query, options)
               /\ NothingBuilt
          ELSE ReportedViolation(thrown) \in {"none", "later"}
    /\ ReportedViolation(validateInputsSql(query, options).message)
          = EarliestViolation(query, options)

\* a request that violates the alias, page_size and subquery checks at once
\* has been rejected for its alias
C3_Witness ==
    /\ pc = "thrown"
    /\ "sourceTable" \in DOMAIN query /\ query.sourceTable # <<>>
    /\ "alias" \notin DOMAIN query
    /\ "page_size" \in DOMAIN options /\ options.page_size = 0
    /\ Len(SubqueriesOf(query)) = 2
    /\ SubqueryViolates(SubqueriesOf(query)[1])
    /\ thrown = <<"alias is required and must be a string">>

(***************************************************************************)
(* C4                                                                      *)
(***************************************************************************)
\* C4: every query buildComplexSQL succeeds on has exactly one of sourceTable
\* and sourceQuery set, at least one field, and a non-empty alias.
C4_QueryInvariantOnSuccess ==
    pc = "returned" =>
        /\ Truthy(Get(query, "sourceTable")) # Truthy(Get(query, "sourceQuery"))
        /\ "fields" \in DOMAIN query /\ Len(query.fields) >= 1
        /\ Truthy(Get(query, "alias"))

(***************************************************************************)
(* C5, C6                                                                  *)
(***************************************************************************)
\* the greatest element of a non-empty set of integers
Greatest(S) == CHOOSE k \in S : \A m \in S : m <= k

\* the names the WITH clause text w defines, left to right: a name is what
\* stands between a blank and the ` AS (` that opens its definition
RECURSIVE CteNamesFrom(_, _)
CteNamesFrom(w, i) ==
    LET at == {k \in i..Len(w) : w[k] = "AS"}
        k == Least(at)
        start == 1 + Greatest({m \in 1..(k - 2) : w[m] = " "})
    IN  IF at = {} THEN <<>>
        ELSE <<SubSeq(w, start, k - 2)>> \o CteNamesFrom(w, k + 1)

CteNames(w) == CteNamesFrom(w, 1)

\* a view and every view under it
RECURSIVE ViewsUnder(_)
ViewsUnder(view) ==
    {view} \cup UNION {ViewsUnder(d.value) : d \in Range(DependsOn(view))}

\* every view a request names, at any depth
ViewsOf(subqueries) ==
    UNION {ViewsUnder(d.value) :
             d \in UNION {Range(DependsOn(subqueries[i])) : i \in DOMAIN subqueries}}

\* C5: no CTE name is defined more than once in the emitted WITH clause,
\* whichever way a view is shared between subqueries and views (stated of the
\* requests whose subqueries themselves bear different names).
C5_CteNamesUnique ==
    LET subs == SubqueriesOf(query)
        names == CteNames(withClause)
    IN  (Built /\ \A i, j \in DOMAIN subs : i # j => subs[i].name # subs[j].name) =>
            \A i, j \in DOMAIN names : i # j => names[i] # names[j]

\* C6: in the WITH clause every view's entry comes after the entries of the
\* views it depends on, every dependency entry comes before the subqueries'
\* entries, the subqueries' entries are in declaration order, and an empty
\* subquery list gives no WITH clause.
C6_DependenciesFirst ==
    Built =>
        LET subs == SubqueriesOf(query)
            names == CteNames(withClause)
            nDeps == Len(names) - Len(subs)
        IN
        /\ Len(subs) = 0 => withClause = <<>>
        /\ Len(subs) > 0 =>
              /\ IsPrefix(<<"WITH", " ">>, withClause)
              /\ nDeps >= 0
              /\ \A i \in DOMAIN subs :
                    names[nDeps + i] = sanitizeIdentifier(subs[i].name)
              /\ \A i \in 1..nDeps :
                    \E view \in ViewsOf(subs) :
                        /\ names[i] = trim(view.name)
                        /\ \A d \in Range(DependsOn(view)) :
                              \E j \in 1..(i - 1) : names[j] = trim(d.value.name)

\* a subquery depending on D, which depends on C and A, which both depend on
\* B, has been given its WITH clause
C6_Witness ==
    /\ pc = "returned"
    /\ Len(SubqueriesOf(query)) = 1
    /\ CteNames(withClause)
          = << <<"B">>, <<"C">>, <<"B">>, <<"A">>, <<"D">>, <<"s", "5">> >>

(***************************************************************************)
(* C7, C8, C9                                                              *)
(***************************************************************************)
MacroNames == {Tail(OrderByMacro), Tail(RevOrderByMacro)}

HasMacro(text) == Range(TokenNames(text, "$")) \cap MacroNames # {}

OrderTermsSupplied ==
    "order_by" \in DOMAIN options /\ Len(options.order_by) > 0

\* C7: no successful result, with or without a parameter map, still holds
\* `$order_by` or `$rev_order_by`; `$order_by` has become the comma-joined
\* order_by list; a macro without order terms makes the call fail.
C7_MacrosResolved ==
    pc = "returned" =>
        /\ ~HasMacro(finalQuery)
        /\ HasMacro(AssembledText) => OrderTermsSupplied
        /\ Contains(AssembledText, OrderByMacro \o <<")">>) =>
              Contains(finalQuery, Join(options.order_by, <<",", " ">>) \o <<")">>)

EndsWith(s, suffix) ==
    Len(suffix) <= Len(s) /\ SubSeq(s, Len(s) - Len(suffix) + 1, Len(s)) = suffix

\* an order term with its direction token reversed and its expression kept
DirectionReversed(term) ==
    IF EndsWith(term, <<" ">> \o DESC)
    THEN SubSeq(term, 1, Len(term) - 4) \o ASC
    ELSE IF EndsWith(term, <<" ">> \o ASC)
    THEN SubSeq(term, 1, Len(term) - 3) \o DESC
    ELSE term

ReversedOrderBy(terms) ==
    Join([i \in DOMAIN terms |-> DirectionReversed(terms[i])], <<",", " ">>)

\* C8: what replaces `$rev_order_by` is the joined order_by list with every
\* direction token reversed and every sort expression unchanged; reversing
\* twice gives the list back.
C8_RevOrderByFlipsDirections ==
    (pc = "macros_replaced"
        /\ Tail(RevOrderByMacro) \in Range(TokenNames(AssembledText, "$"))) =>
        /\ Contains(finalQuery, ReversedOrderBy(options.order_by))
        /\ revOrderBy(revOrderBy(orderByCondition)) = orderByCondition

\* the index of the leftmost token of s at or after i that the rewriter is to
\* replace: a `?identifier`, `$order_by` or `$rev_order_by`; 0 when none
NextRewritable(s, i) ==
    LET at == {k \in i..Len(s) :
                 \/ TokenAt(s, k, "?")
                 \/ /\ TokenAt(s, k, "$")
                    /\ SubSeq(s, k + 1, IdentEnd(s, k + 1)) \in MacroNames}
    IN  IF at = {} THEN 0 ELSE Least(at)

\* the stretches of s between those tokens
RECURSIVE SegmentsFrom(_, _)
SegmentsFrom(s, i) ==
    LET k == NextRewritable(s, i) IN
    IF k = 0 THEN <<SubSeq(s, i, Len(s))>>
    ELSE <<SubSeq(s, i, k - 1)>> \o SegmentsFrom(s, IdentEnd(s, k + 1) + 1)

\* C9: the rewriter changes the two ordering macros and the `?identifier`
\* placeholders only: all other text of the assembled statement, any other
\* `$identifier` included, is in the final text unchanged.
C9_OtherTextUnchanged ==
    pc = "returned" =>
        \A segment \in Range(SegmentsFrom(AssembledText, 1)) :
            Contains(finalQuery, segment)

(***************************************************************************)
(* C10                                                                     *)
(***************************************************************************)
\* the columns of a field mapping in insertion order
DeclaredColumns(fields) ==
    [i \in DOMAIN fields |->
        trim(fields[i].value) \o <<" ", "AS", " ">>
            \o sanitizeIdentifier(fields[i].key)]

\* C10: the SELECT list renders every field as `expression AS name`, in the
\* mapping's insertion order whatever the field names, the main query's
\* fields first, then each subquery's fields in declaration order.
C10_ColumnsInInsertionOrder ==
    Built =>
        LET subs == SubqueriesOf(query)
            declared ==
                DeclaredColumns(query.fields)
                \o Flatten([i \in DOMAIN subs |-> DeclaredColumns(subs[i].fields)])
        IN  IsPrefix(<<"SELECT", " ">> \o Join(declared, <<",", " ">>), selectClause)

(***************************************************************************)
(* C11                                                                     *)
(***************************************************************************)
\* the pieces of s that `sep` separates, from index i on
RECURSIVE SplitFrom(_, _, _)
SplitFrom(s, i, sep) ==
    LET at == {k \in i..(Len(s) - Len(sep) + 1) :
                 SubSeq(s, k, k + Len(sep) - 1) = sep}
    IN  IF at = {} THEN <<SubSeq(s, i, Len(s))>>
        ELSE <<SubSeq(s, i, Least(at) - 1)>>
                 \o SplitFrom(s, Least(at) + Len(sep), sep)

\* the columns of a SELECT clause
ColumnsOf(select) == SplitFrom(select, 3, <<",", " ">>)

\* the same columns, in whatever order
SameColumns(a, b) ==
    /\ Len(a) = Len(b)
    /\ \A x \in Range(a) \cup Range(b) : Count(a, x) = Count(b, x)

\* every declared field of the query and of its subqueries, as a column
AllDeclaredColumns ==
    LET subs == SubqueriesOf(query) IN
    DeclaredColumns(query.fields)
        \o Flatten([i \in DOMAIN subs |-> DeclaredColumns(subs[i].fields)])

\* more than one order_by term together with both page and page_size
FullPagination ==
    /\ "order_by" \in DOMAIN options /\ Len(options.order_by) > 1
    /\ "page" \in DOMAIN options
    /\ "page_size" \in DOMAIN options

\* C11: the two window-count columns, _sql_util_remaining then _sql_util_num,
\* close the SELECT list after all declared fields exactly when the options
\* give more than one order_by term with both page and page_size; otherwise
\* the list holds the declared fields and nothing else.
C11_WindowColumnsIffFullPagination ==
    Built =>
        LET cols == ColumnsOf(selectClause)
            n == Len(AllDeclaredColumns)
        IN  /\ IsPrefix(<<"SELECT", " ">>, selectClause)
            /\ IF FullPagination
               THEN /\ Len(cols) = n + 2
                    /\ SameColumns(SubSeq(cols, 1, n), AllDeclaredColumns)
                    /\ EndsWith(cols[n + 1], <<" ", "AS", " ", "_sql_util_remaining">>)
                    /\ EndsWith(cols[n + 2], <<" ", "AS", " ", "_sql_util_num">>)
               ELSE SameColumns(cols, AllDeclaredColumns)
            /\ Count(finalQuery, "_sql_util_remaining")
                  = (IF FullPagination THEN 1 ELSE 0)
            /\ Count(finalQuery, "_sql_util_num")
                  = (IF FullPagination THEN 1 ELSE 0)

\* a call with two order terms, page 0 and a page size has returned text that
\* selects both window counts
C11_Witness ==
    /\ pc = "returned"
    /\ FullPagination
    /\ options.page = 0
    /\ Count(finalQuery, "_sql_util_remaining") = 1
    /\ Count(finalQuery, "_sql_util_num") = 1

(***************************************************************************)
(* C12                                                                     *)
(***************************************************************************)
\* the filters that are present, each in parentheses, the query's first; an
\* empty or whitespace-only filter is no filter
PresentFilters ==
    (IF "where" \in DOMAIN query /\ trim(query.where) # <<>>
     THEN << <<"(">> \o query.where \o <<")">> >> ELSE <<>>)
    \o
    (IF "where" \in DOMAIN options /\ trim(options.where) # <<>>
     THEN << <<"(">> \o options.where \o <<")">> >> ELSE <<>>)

\* C12: a WHERE clause is emitted exactly when a filter is present, as `WHERE`
\* and the present filters in parentheses, the query's first, joined by
\* ` AND `; a WHERE with no condition after it is never emitted, an empty or
\* whitespace-only options filter included.
C12_WhereIffFilterPresent ==
    Built =>
        /\ whereClause =
              (IF PresentFilters = <<>> THEN <<>>
               ELSE <<"WHERE", " ">> \o Join(PresentFilters, <<" ", "AND", " ">>))
        /\ whereClause # <<"WHERE", " ">>
        /\ pc = "returned" =>
              (Count(finalQuery, "WHERE") = IF PresentFilters = <<>> THEN 0 ELSE 1)

(***************************************************************************)
(* C13                                                                     *)
(***************************************************************************)
\* whether clause is `keyword`, a blank and the decimal numeral of n
IsKeywordNumber(clause, keyword, n) ==
    /\ Len(clause) >= 3
    /\ clause[1] = keyword
    /\ clause[2] = " "
    /\ IsArrayIndex(SubSeq(clause, 3, Len(clause)))
    /\ TextToNum(SubSeq(clause, 3, Len(clause))) = n

RECURSIVE Stripped(_)
Stripped(s) ==
    IF s = <<>> THEN <<>>
    ELSE (IF Head(s) \in Range(LowerSeq) \cup Range(UpperSeq)
                          \cup Range(DigitSeq) \cup {"_"}
          THEN <<Head(s)>> ELSE <<>>) \o Stripped(Tail(s))

\* the join line of a subquery: join type, name, alias and predicate
JoinLine(subquery) ==
    subquery.joinType \o <<" ">> \o Stripped(subquery.name)
        \o <<" ", "AS", " ">> \o Stripped(subquery.alias)
        \o <<" ", "ON", " ">> \o subquery.joinOn

\* C14: FROM is `FROM <sanitized table> AS <sanitized alias>` for a table
\* source and `FROM (<source query verbatim>) AS <sanitized alias>` for a
\* subquery source, sanitizing leaving out every character outside
\* [A-Za-z0-9_]; n subqueries give n join lines in declaration order, each
\* `<joinType> <sanitized name> AS <sanitized alias> ON <joinOn>`, the joined
\* name being the name the subquery's CTE bears in the WITH clause.
C14_FromAndJoinLines ==
    Built =>
        LET subs == SubqueriesOf(query)
            names == CteNames(withClause)
            lines == SplitFrom(joinClauses, 1, <<"\n">>)
        IN  /\ fromClause =
                  (IF "sourceTable" \in DOMAIN query /\ query.sourceTable # <<>>
                   THEN <<"FROM", " ">> \o Stripped(query.sourceTable)
                   ELSE <<"FROM", " ", "(">> \o query.sourceQuery \o <<")">>)
                  \o <<" ", "AS", " ">> \o Stripped(query.alias)
            /\ query.alias = DropTable =>
                  EndsWith(fromClause,
                           <<" ", "AS", " ", "u", "D", "R", "O", "P",
                             "T", "A", "B", "L", "E", "x">>)
            /\ IF Len(subs) = 0 THEN joinClauses = <<>>
               ELSE /\ Len(lines) = Len(subs)
                    /\ \A i \in DOMAIN subs :
                          /\ lines[i] = JoinLine(subs[i])
                          /\ names[Len(names) - Len(subs) + i] = Stripped(subs[i].name)
                          /\ IsPrefix(subs[i].joinType \o <<" ">>
                                          \o names[Len(names) - Len(subs) + i]
                                          \o <<" ", "AS", " ">>,
                                      lines[i])

\* a query aliased "u; DROP TABLE x" with a JOIN and then a LEFT JOIN subquery
\* has returned its text
C14_Witness ==
    /\ pc = "returned"
    /\ query.alias = DropTable
    /\ Len(SubqueriesOf(query)) = 2
    /\ SubqueriesOf(query)[1].joinType = <<"JOIN">>
    /\ SubqueriesOf(query)[2].joinType = <<"LEFT JOIN">>
    /\ Count(joinClauses, "\n") = 1
    /\ Contains(finalQuery, <<"AS", " ", "u", "D", "R", "O", "P", "T", "A", "B", "L", "E", "x">>)

(***************************************************************************)
(* C15                                                                     *)
(***************************************************************************)
\* a row that carries both window counts
HasCounts(row) ==
    "_sql_util_remaining" \in DOMAIN row /\ "_sql_util_num" \in DOMAIN row

\* C15: paginateData fails when any row of a non-empty input lacks a window
\* count; when it succeeds on rows it returns them unchanged with total =
\* first row's remaining + first row's num and has_more = (last row's
\* remaining > 0), echoing page and limit; on no rows it returns total 0 and
\* has_more false.
C15_PaginateNeedsCountsOnEveryRow ==
    pc # "paginate" =>
        IF Len(data) = 0
        THEN /\ pc = "paginated"
             /\ paginated.data = <<>>
             /\ paginated.pagination.total = 0
             /\ paginated.pagination.has_more = FALSE
        ELSE IF \E i \in DOMAIN data : ~HasCounts(data[i])
        THEN pc = "paginate_thrown"
        ELSE /\ pc = "paginated"
             /\ paginated.data = data
             /\ paginated.pagination.total
                   = data[1]._sql_util_remaining + data[1]._sql_util_num
             /\ paginated.pagination.has_more
                   = (data[Len(data)]._sql_util_remaining > 0)
             /\ paginated.pagination.page
                   = (IF "page" \in DOMAIN pageArgs THEN pageArgs.page ELSE 0)
             /\ paginated.pagination.limit
                   = (IF "limit" \in DOMAIN pageArgs THEN pageArgs.limit ELSE 10)

(***************************************************************************)
(* C16                                                                     *)
(***************************************************************************)
\* the placeholders of a subquery's text that its own params give a value
OwnPlaceholders(subquery) ==
    IF "params" \in DOMAIN subquery
    THEN Range(TokenNames(subquery.query, "?")) \cap DOMAIN subquery.params
    ELSE {}

\* C16: a `?identifier` of a subquery's text whose value the subquery's own
\* params supply is bound to that value in the returned params, whether or
\* not options.params repeats it: the call does not fail for want of it, and
\* the returned text keeps no such token.
C16_SubqueryParamsBound ==
    \A i \in DOMAIN SubqueriesOf(query) :
        \A name \in OwnPlaceholders(SubqueriesOf(query)[i]) :
            /\ pc # "call" => thrown # <<"Missing parameter: ">> \o name
            /\ pc = "returned" =>
                  /\ SubqueriesOf(query)[i].params[name] \in Range(paramsOut)
                  /\ name \notin Range(TokenNames(finalQuery, "?"))

(***************************************************************************)
(* C17                                                                     *)
(***************************************************************************)
\* the identifiers a request puts in structural positions, as declared
StructuralIdentifiers ==
    LET subs == SubqueriesOf(query) IN
    (IF "sourceTable" \in DOMAIN query /\ query.sourceTable # <<>>
     THEN {query.sourceTable} ELSE {})
    \cup {query.alias}
    \cup {subs[i].name : i \in DOMAIN subs}
    \cup {subs[i].alias : i \in DOMAIN subs}
    \cup {f.key : f \in Range(query.fields)}
    \cup UNION {{f.key : f \in Range(subs[i].fields)} : i \in DOMAIN subs}

\* C17: in every successful result each identifier in a structural position
\* (table, alias, CTE names, join names and aliases, column names) is
\* non-empty after sanitizing, and subqueries declared under different names
\* bear different sanitized names.
C17_IdentifiersSurviveSanitizing ==
    pc = "returned" =>
        LET subs == SubqueriesOf(query) IN
        /\ \A identifier \in StructuralIdentifiers : Stripped(identifier) # <<>>
        /\ ~EndsWith(fromClause, <<" ", "AS", " ">>)
        /\ \A name \in Range(CteNames(withClause)) : name # <<>>
        /\ \A i, j \in DOMAIN subs :
              subs[i].name # subs[j].name =>
                  Stripped(subs[i].name) # Stripped(subs[j].name)

====
